---------------------------- MODULE Spec2Model ----------------------------
(***************************************************************************)
(* Model of open_edx_api_extension: the bulk enrollment view               *)
(* (PaidMassEnrollment.post), the enrollment listing view                  *)
(* (SSOEnrollmentListView.get with data.get_course_enrollments) and the    *)
(* proctored exam aggregation (data.get_user_proctored_exams).             *)
(***************************************************************************)
EXTENDS Integers, Sequences, FiniteSets, TLC

(***************************************************************************)
(* Bounds of the model.                                                    *)
(***************************************************************************)
\* longest "users" list of a bulk enrollment request
MaxUsers == 3
\* largest enrollment creation timestamp of the listing model
MaxCreated == 2
\* latest day of a course start
MaxDay == 2
\* most exams a course has in the exam registry
MaxExams == 2

(***************************************************************************)
(* Values of the host platform.                                            *)
(***************************************************************************)
\* Python's None where a string is expected (an absent request field)
None == "None"
\* Python's None where an object is expected (no row, no response)
Nothing == [none |-> TRUE]

\* usernames with an account (User.objects.get succeeds)
Accounts == {"u1", "u2"}
\* usernames a request may list; g1, g2 have no account
UserNames == Accounts \cup {"g1", "g2"}

\* CourseMode.VERIFIED
VERIFIED == "verified"
\* course modes an enrollment row may carry
Modes == {"honor", VERIFIED}

\* the serialized course ids that parse as a course key
Courses == {"c1", "c2", "c3"}
\* the course of the bulk enrollment requests of the model
ValidCourseIds == {"c1"}
\* course_details.course_id of a request: absent, unparsable, valid
RequestCourseIds == {None, "bad"} \cup ValidCourseIds

\* HTTP status codes of rest_framework.status
HTTP_200_OK == 200
HTTP_400_BAD_REQUEST == 400
HTTP_404_NOT_FOUND == 404

\* the exceptions of enrollment.errors the view handles
ServiceErrors == {"CourseModeNotFoundError", "CourseNotFoundError",
                  "CourseEnrollmentExistsError", "CourseEnrollmentError"}

VARIABLES
    enrollments,      \* committed CourseEnrollment table: a set of rows
    before,           \* the committed table when the request arrived
    tx,               \* the table as seen inside the request's transaction
    restricted,       \* accounts the embargo check blocks for the course
    pc,               \* position of PaidMassEnrollment.post
    request,          \* request.DATA of the bulk enrollment request
    course_id,        \* parsed course key
    mode,             \* requested mode after defaulting
    bad_users,        \* usernames without an account
    list_users,       \* resolved user objects
    embargo_checked,  \* users passed to get_embargo_response, in call order
    classified,       \* usernames passed to api.get_enrollment, in call order
    already_paid,     \* usernames with a verified enrollment
    not_enrolled,     \* usernames without an active enrollment
    current_username, \* the username being processed inside the try block
    update_calls,     \* usernames passed to api.update_enrollment, in call order
    opt_in_calls,     \* usernames passed to update_email_opt_in, in call order
    raised,           \* the enrollment.errors exception a host call raised, or None
    response,         \* the Response returned, Nothing while running
    list_request,     \* the GET request of SSOEnrollmentListView.get
    queries,          \* the calls of get_course_enrollments: <<user_id, course>>
    list_response,    \* the Response of SSOEnrollmentListView.get
    exam_registry,    \* edx_proctoring: the exams of every course
    exam_username,    \* the username of the proctored exams request
    exam_order,       \* the rows in the order the enrolments query delivered them
    exam_result,      \* the dictionary get_user_proctored_exams returned
    exam_emitted,     \* the course ids in the order the response lists the entries
    end_course,       \* a course whose entry is built (lines 29-47)
    end_entry         \* the entry built for end_course, Nothing before

bulkVars == <<tx, restricted, pc, request, course_id, mode, bad_users, list_users,
              embargo_checked, classified, already_paid, not_enrolled,
              current_username, update_calls, opt_in_calls, raised, response>>

listVars == <<list_request, queries, list_response>>

examVars == <<exam_registry, exam_username, exam_order, exam_result, exam_emitted,
              end_course, end_entry>>

viewVars == <<listVars, examVars>>

vars == <<enrollments, before, bulkVars, listVars, examVars>>

(***************************************************************************)
(* Sequence helpers.                                                       *)
(***************************************************************************)
\* all sequences over S of length 0..n
SeqsUpTo(S, n) == UNION {[1..k -> S] : k \in 0..n}

\* the elements of a sequence
Range(s) == {s[i] : i \in DOMAIN s}

\* Python's ', '.join(names): the names with a separator between neighbours
RECURSIVE Join(_)
Join(names) ==
    IF Len(names) = 0 THEN <<>>
    ELSE IF Len(names) = 1 THEN <<names[1]>>
    ELSE <<names[1], ", ">> \o Join(Tail(names))

\* the subsequence of s whose elements are in keep, order kept
RECURSIVE SelectIn(_, _)
SelectIn(s, keep) ==
    IF Len(s) = 0 THEN <<>>
    ELSE IF s[1] \in keep THEN <<s[1]>> \o SelectIn(Tail(s), keep)
    ELSE SelectIn(Tail(s), keep)

\* whether s is a prefix of t
IsPrefix(s, t) == Len(s) <= Len(t) /\ s = SubSeq(t, 1, Len(s))

(***************************************************************************)
(* The CourseEnrollment table and the host services the views call.        *)
(***************************************************************************)
\* student.models.CourseEnrollment rows: one per (user, course) at most
Row(u, c, m, a, t) ==
    [user |-> u, course_id |-> c, mode |-> m, is_active |-> a, created |-> t]

\* the table a choice f of "row or no row" per (user, course) gives
Table(f) ==
    {Row(k[1], k[2], f[k].mode, f[k].is_active, f[k].created) :
        k \in {j \in DOMAIN f : f[j] # Nothing}}

\* CourseKey.from_string: a key object for a parsable id, InvalidKeyError else
CourseKeyFromString(s) ==
    IF s \in Courses THEN [org |-> "edX", id |-> s] ELSE Nothing

\* unicode(course_id): the key serialized again
Unicode(key) == key.id

\* User.objects.get(username=...): the user object, ObjectDoesNotExist else
UserObjectsGet(username) ==
    IF username \in Accounts THEN [username |-> username] ELSE Nothing

\* embargo_api.get_embargo_response(request, course_id, user)
get_embargo_response(key, user) ==
    IF user.username \in restricted
    THEN [status |-> 403,
          data |-> [message |-> <<"Users from this location cannot access the course '",
                                  Unicode(key), "'.">>,
                    user_message_url |-> <<"/embargo/blocked/", user.username>>]]
    ELSE Nothing

\* api.get_enrollment(username, course): the user's row in the course, or nothing
get_enrollment(table, username, course) ==
    IF \E r \in table : r.user = username /\ r.course_id = course
    THEN CHOOSE r \in table : r.user = username /\ r.course_id = course
    ELSE Nothing

\* IsBool with the bug of isinstance(is_active, (bool, basestring))
IsBoolOrString(v) == v # None

\* isinstance(is_active, bool)
IsBool(v) == v \in {"True", "False"}

\* api.update_enrollment(username, course, mode=mode, is_active=is_active) when
\* it succeeds: the row's mode is set, and its is_active when one is given
update_enrollment(table, username, course, m, active) ==
    {IF r.user = username /\ r.course_id = course
     THEN [r EXCEPT !.mode = m,
                    !.is_active = IF active = None THEN @ ELSE (active = "True")]
     ELSE r : r \in table}

\* rest_framework.response.Response(status=..., data=...)
Response(status, data) == [status |-> status, data |-> data]

(***************************************************************************)
(* PaidMassEnrollment.post: the responses it builds.                       *)
(***************************************************************************)
MissingUsersResponse ==
    Response(HTTP_400_BAD_REQUEST,
             [message |-> <<"Users must be specified to create a new enrollment.">>])

MissingCourseResponse ==
    Response(HTTP_400_BAD_REQUEST,
             [message |-> <<"Course ID must be specified to create a new enrollment.">>])

\* used for InvalidKeyError (the raw id) and CourseNotFoundError (the key)
NoCourseResponse(id) ==
    Response(HTTP_400_BAD_REQUEST,
             [message |-> <<"No course '", id, "' found for enrollment">>])

UnknownUsersResponse(bad) ==
    Response(HTTP_400_BAD_REQUEST,
             [message |-> <<"Users: ">> \o Join(bad) \o <<" does not exist.">>])

InvalidActivationResponse(value) ==
    Response(HTTP_400_BAD_REQUEST,
             [message |-> <<"'", value, "' is an invalid enrollment activation status.">>])

\* msg_paid
MsgPaid(paid) ==
    IF Len(paid) > 0
    THEN <<"Users: ">> \o Join(paid) \o <<" already paid for course.">>
    ELSE <<>>

\* msg_not_enrolled
MsgNotEnrolled(missing) ==
    IF Len(missing) > 0
    THEN <<"Users: ">> \o Join(missing) \o <<" not enrolled for course.">>
    ELSE <<>>

ConflictResponse(key, paid, missing) ==
    Response(HTTP_400_BAD_REQUEST,
             [message |-> <<"'", Unicode(key), "'\n:">> \o MsgPaid(paid)
                          \o <<"\n">> \o MsgNotEnrolled(missing)])

SuccessResponse(key) ==
    Response(HTTP_200_OK,
             [message |-> <<"Success for course '", Unicode(key), "'.">>])

\* the except clauses of post, in the order they are written
ErrorResponse(error, key, username, table) ==
    IF error = "CourseModeNotFoundError"
    THEN Response(HTTP_400_BAD_REQUEST,
                  [message |-> <<"The course mode '", "verified",
                                 "' is not available for course '", Unicode(key), "'.">>,
                   course_details |-> <<"course_details", Unicode(key)>>])
    ELSE IF error = "CourseNotFoundError"
    THEN NoCourseResponse(Unicode(key))
    ELSE IF error = "CourseEnrollmentExistsError"
    THEN Response(HTTP_200_OK, get_enrollment(table, username, Unicode(key)))
    ELSE Response(HTTP_400_BAD_REQUEST,
                  [message |-> <<"An error occurred while creating the new course enrollment for user '",
                                 username, "' in course '", Unicode(key), "'">>])

(***************************************************************************)
(* PaidMassEnrollment.post: the loops over the users.                      *)
(***************************************************************************)
\* BadUsers with the bug of reporting the first unknown username only
BadUsersFirstOnly(users) ==
    IF \E i \in DOMAIN users : UserObjectsGet(users[i]) = Nothing
    THEN <<users[CHOOSE i \in DOMAIN users :
                   /\ UserObjectsGet(users[i]) = Nothing
                   /\ \A j \in 1..(i - 1) : UserObjectsGet(users[j]) # Nothing]>>
    ELSE <<>>

\* the usernames User.objects.get does not find, in input order
RECURSIVE BadUsers(_)
BadUsers(users) ==
    IF Len(users) = 0 THEN <<>>
    ELSE IF UserObjectsGet(users[1]) = Nothing
         THEN <<users[1]>> \o BadUsers(Tail(users))
         ELSE BadUsers(Tail(users))

\* the user objects User.objects.get finds, in input order
RECURSIVE ListUsers(_)
ListUsers(users) ==
    IF Len(users) = 0 THEN <<>>
    ELSE IF UserObjectsGet(users[1]) = Nothing
         THEN ListUsers(Tail(users))
         ELSE <<UserObjectsGet(users[1])>> \o ListUsers(Tail(users))

\* the usernames whose enrollment is active and in CourseMode.VERIFIED
RECURSIVE AlreadyPaid(_, _, _)
AlreadyPaid(table, users, course) ==
    IF Len(users) = 0 THEN <<>>
    ELSE LET enrollment == get_enrollment(table, users[1], course)
             rest == AlreadyPaid(table, Tail(users), course)
         IN IF enrollment = Nothing THEN rest
            ELSE IF enrollment.is_active # TRUE THEN rest
            ELSE IF enrollment.mode = VERIFIED THEN <<users[1]>> \o rest
            ELSE rest

\* the usernames without an enrollment or with an inactive one
RECURSIVE NotEnrolled(_, _, _)
NotEnrolled(table, users, course) ==
    IF Len(users) = 0 THEN <<>>
    ELSE LET enrollment == get_enrollment(table, users[1], course)
             rest == NotEnrolled(table, Tail(users), course)
         IN IF enrollment = Nothing THEN <<users[1]>> \o rest
            ELSE IF enrollment.is_active # TRUE THEN <<users[1]>> \o rest
            ELSE rest

(***************************************************************************)
(* PaidMassEnrollment.post, step by step.                                  *)
(***************************************************************************)
\* the request bodies of the model
Requests ==
    [users : SeqsUpTo(UserNames, MaxUsers),
     course_id : RequestCourseIds,
     mode : {None} \cup Modes,
     is_active : {None, "True", "False", "yes"},
     email_opt_in : {None, "True"}]

\* the tables of the bulk model: per account, no row or one row in the course
BulkTables ==
    {Table(f) : f \in [Accounts \X ValidCourseIds ->
                         {Nothing} \cup [mode : Modes, is_active : BOOLEAN, created : {1}]]}

InitBulk ==
    /\ enrollments \in BulkTables
    /\ before = enrollments
    /\ tx = enrollments
    /\ restricted \in SUBSET Accounts
    /\ pc = "idle"
    /\ request = Nothing
    /\ course_id = Nothing
    /\ mode = None
    /\ bad_users = <<>>
    /\ list_users = <<>>
    /\ embargo_checked = <<>>
    /\ classified = <<>>
    /\ already_paid = <<>>
    /\ not_enrolled = <<>>
    /\ current_username = None
    /\ update_calls = <<>>
    /\ opt_in_calls = <<>>
    /\ raised = None
    /\ response = Nothing

\* Return with the transaction rolled back for every response but 200
ReturnRolledBack(resp, table) ==
    /\ response' = resp
    /\ pc' = "done"
    /\ tx' = IF resp.status = HTTP_200_OK THEN table ELSE before
    /\ enrollments' = IF resp.status = HTTP_200_OK THEN table ELSE before

\* return resp: transaction.commit_on_success commits the transaction's table
Return(resp, table) ==
    /\ response' = resp
    /\ pc' = "done"
    /\ tx' = table
    /\ enrollments' = table

\* go on to the step at label
Goto(label) ==
    /\ pc' = label
    /\ UNCHANGED <<response, enrollments>>

\* lines 323-350: users, course_details.course_id, the course key, the mode
Post ==
    /\ pc = "idle"
    /\ \E req \in Requests :
        /\ request' = req
        /\ IF Len(req.users) = 0
           THEN Return(MissingUsersResponse, tx) /\ UNCHANGED <<course_id, mode>>
           ELSE IF req.course_id = None
           THEN Return(MissingCourseResponse, tx) /\ UNCHANGED <<course_id, mode>>
           ELSE IF CourseKeyFromString(req.course_id) = Nothing
           THEN Return(NoCourseResponse(req.course_id), tx) /\ UNCHANGED <<course_id, mode>>
           ELSE /\ course_id' = CourseKeyFromString(req.course_id)
                /\ mode' = IF req.mode = None THEN VERIFIED ELSE req.mode
                /\ Goto("resolve")
                /\ UNCHANGED tx
    /\ UNCHANGED <<viewVars, before, restricted, bad_users, list_users, embargo_checked, classified,
                   already_paid, not_enrolled, current_username, update_calls,
                   opt_in_calls,
                   raised>>

\* lines 352-365: resolve every username, report all unknown ones together
ResolveUsers ==
    /\ pc = "resolve"
    /\ bad_users' = BadUsers(request.users)
    /\ list_users' = ListUsers(request.users)
    /\ IF Len(bad_users') > 0
       THEN Return(UnknownUsersResponse(bad_users'), tx)
       ELSE Goto("embargo") /\ UNCHANGED tx
    /\ UNCHANGED <<viewVars, before, restricted, request, course_id, mode, embargo_checked,
                   classified, already_paid, not_enrolled, current_username,
                   update_calls, opt_in_calls,
                   raised>>

\* EmbargoCheck with the bug of testing embargo_response after the loop: every
\* user is checked and the response of the last restricted one is returned
EmbargoCheckAfterLoop ==
    /\ pc = "embargo"
    /\ Len(embargo_checked) < Len(list_users)
    /\ embargo_checked' = list_users
    /\ LET blocked == {i \in DOMAIN list_users : list_users[i].username \in restricted}
       IN IF blocked # {}
          THEN Return(get_embargo_response(
                          course_id,
                          list_users[CHOOSE i \in blocked : \A j \in blocked : j <= i]), tx)
          ELSE Goto("activation") /\ UNCHANGED tx
    /\ UNCHANGED <<viewVars, before, restricted, request, course_id, mode, bad_users, list_users,
                   classified, already_paid, not_enrolled, current_username,
                   update_calls, opt_in_calls, raised>>

\* lines 367-371: one iteration of the embargo loop
EmbargoCheck ==
    /\ pc = "embargo"
    /\ Len(embargo_checked) < Len(list_users)
    /\ LET user == list_users[Len(embargo_checked) + 1]
           embargo_response == get_embargo_response(course_id, user)
       IN /\ embargo_checked' = Append(embargo_checked, user)
          /\ IF embargo_response # Nothing
             THEN Return(embargo_response, tx)
             ELSE /\ Goto(IF Len(embargo_checked') = Len(list_users)
                          THEN "activation" ELSE "embargo")
                  /\ UNCHANGED tx
    /\ UNCHANGED <<viewVars, before, restricted, request, course_id, mode, bad_users, list_users,
                   classified, already_paid, not_enrolled, current_username,
                   update_calls, opt_in_calls,
                   raised>>

\* lines 373-383: is_active must be None or a bool
CheckActivation ==
    /\ pc = "activation"
    /\ IF request.is_active # None /\ ~IsBool(request.is_active)
       THEN Return(InvalidActivationResponse(request.is_active), tx)
       ELSE Goto("classify") /\ UNCHANGED tx
    /\ UNCHANGED <<viewVars, before, restricted, request, course_id, mode, bad_users, list_users,
                   embargo_checked, classified, already_paid, not_enrolled,
                   current_username, update_calls, opt_in_calls,
                   raised>>

\* Classify with the bug of updating the first user before the batch is
\* known to be free of conflicts
ClassifyAfterFirstUpdate ==
    /\ pc = "classify"
    /\ LET users == request.users IN
        /\ classified' = users
        /\ current_username' = users[Len(users)]
        /\ already_paid' = AlreadyPaid(tx, users, Unicode(course_id))
        /\ not_enrolled' = NotEnrolled(tx, users, Unicode(course_id))
        /\ update_calls' = <<users[1]>>
        /\ IF Len(already_paid') > 0 \/ Len(not_enrolled') > 0
           THEN Return(ConflictResponse(course_id, already_paid', not_enrolled'),
                       update_enrollment(tx, users[1], Unicode(course_id), mode,
                                         request.is_active))
           ELSE /\ Goto(IF Len(users) = 1 THEN "finish" ELSE "update")
                /\ tx' = update_enrollment(tx, users[1], Unicode(course_id), mode,
                                           request.is_active)
    /\ UNCHANGED <<viewVars, before, restricted, request, course_id, mode, bad_users, list_users,
                   embargo_checked, opt_in_calls, raised>>

\* lines 385-414: classify every user; api.get_enrollment may raise
Classify ==
    /\ pc = "classify"
    /\ LET users == request.users IN
       \/ \* get_enrollment raises CourseEnrollmentError for the j-th user
          \E j \in 1..Len(users) :
            /\ classified' = SubSeq(users, 1, j)
            /\ current_username' = users[j]
            /\ already_paid' = AlreadyPaid(tx, SubSeq(users, 1, j - 1), Unicode(course_id))
            /\ not_enrolled' = NotEnrolled(tx, SubSeq(users, 1, j - 1), Unicode(course_id))
            /\ raised' = "CourseEnrollmentError"
            /\ Return(ErrorResponse("CourseEnrollmentError", course_id, users[j], tx), tx)
       \/ /\ classified' = users
          /\ UNCHANGED raised
          /\ current_username' = users[Len(users)]
          /\ already_paid' = AlreadyPaid(tx, users, Unicode(course_id))
          /\ not_enrolled' = NotEnrolled(tx, users, Unicode(course_id))
          /\ IF Len(already_paid') > 0 \/ Len(not_enrolled') > 0
             THEN Return(ConflictResponse(course_id, already_paid', not_enrolled'), tx)
             ELSE Goto("update") /\ UNCHANGED tx
    /\ UNCHANGED <<viewVars, before, restricted, request, course_id, mode, bad_users, list_users,
                   embargo_checked, update_calls, opt_in_calls>>

\* lines 416-418 and 431-458: one iteration of the update loop; the call
\* either updates the row or raises one of the handled errors
UpdateEnrollment ==
    /\ pc = "update"
    /\ Len(update_calls) < Len(request.users)
    /\ LET username == request.users[Len(update_calls) + 1] IN
        /\ current_username' = username
        /\ update_calls' = Append(update_calls, username)
        /\ \/ /\ tx' = update_enrollment(tx, username, Unicode(course_id), mode,
                                         request.is_active)
              /\ Goto(IF Len(update_calls') = Len(request.users)
                      THEN "finish" ELSE "update")
              /\ UNCHANGED raised
           \/ \E error \in ServiceErrors :
                /\ raised' = error
                /\ Return(ErrorResponse(error, course_id, username, tx), tx)
    /\ UNCHANGED <<viewVars, before, restricted, request, course_id, mode, bad_users, list_users,
                   embargo_checked, classified, already_paid, not_enrolled,
                   opt_in_calls>>

\* lines 420-430: the email opt-in of every user, then the success response
Finish ==
    /\ pc = "finish"
    /\ opt_in_calls' = IF request.email_opt_in # None THEN request.users ELSE <<>>
    /\ Return(SuccessResponse(course_id), tx)
    /\ UNCHANGED <<viewVars, before, restricted, request, course_id, mode, bad_users, list_users,
                   embargo_checked, classified, already_paid, not_enrolled,
                   current_username, update_calls,
                   raised>>

\* no bulk enrollment request is in progress
BulkOff ==
    /\ before = enrollments
    /\ tx = enrollments
    /\ restricted = {}
    /\ pc = "off"
    /\ request = Nothing
    /\ course_id = Nothing
    /\ mode = None
    /\ bad_users = <<>>
    /\ list_users = <<>>
    /\ embargo_checked = <<>>
    /\ classified = <<>>
    /\ already_paid = <<>>
    /\ not_enrolled = <<>>
    /\ current_username = None
    /\ update_calls = <<>>
    /\ opt_in_calls = <<>>
    /\ raised = None
    /\ response = Nothing

\* no proctored exams request was made
ExamsOff ==
    /\ exam_registry = [c \in Courses |-> <<>>]
    /\ exam_username = None
    /\ exam_order = <<>>
    /\ exam_result = Nothing
    /\ exam_emitted = <<>>
    /\ end_course = Nothing
    /\ end_entry = Nothing

(***************************************************************************)
(* data.get_course_enrollments and SSOEnrollmentListView.get.              *)
(***************************************************************************)
\* enrollment.serializers.CourseEnrollmentSerializer: one dictionary per row
Serialize(row) ==
    [created |-> row.created,
     mode |-> row.mode,
     is_active |-> row.is_active,
     course_details |-> [course_id |-> row.course_id],
     user |-> row.user]

\* the orders in which an unordered query may deliver rows
AnyOrder(rows) ==
    {s \in [1..Cardinality(rows) -> rows] : \A r \in rows : \E i \in DOMAIN s : s[i] = r}

\* OrderBy with the order_by call left out: the rows in any order
OrderByOmitted(rows, field) == AnyOrder(rows)

\* the orders in which order_by(field) may deliver rows: every arrangement of
\* the rows with field ascending (rows with equal values come in any order)
OrderBy(rows, field) ==
    {s \in [1..Cardinality(rows) -> rows] :
        /\ \A r \in rows : \E i \in DOMAIN s : s[i] = r
        /\ \A i, j \in DOMAIN s : i < j => s[i][field] <= s[j][field]}

\* get_course_enrollments(user_id, course_id=course): the lists it may return.
\* course is None when no course_id keyword is passed.
get_course_enrollments(table, user_id, course) ==
    LET active == {r \in table : r.is_active = TRUE
                                 /\ (course # None => r.course_id = course)}
        qset == IF user_id # None THEN {r \in active : r.user = user_id} ELSE active
    IN {[i \in DOMAIN s |-> Serialize(s[i])] : s \in OrderBy(qset, "created")}

\* Python's  a and b or c  for b = None: None is falsy, so the result is c
AndNoneOr(a, c) == IF a /\ FALSE THEN None ELSE c

\* request.GET.get('user', request.user.is_staff and None or request.user.username)
RequestedUsername(req) ==
    IF req.user # None THEN req.user
    ELSE AndNoneOr(req.requester.is_staff, req.requester.username)

\* the course_key of get: None for an absent or unparsable course_run
RequestedCourse(req) ==
    IF req.course_run = None THEN None
    ELSE IF CourseKeyFromString(req.course_run) = Nothing THEN None
    ELSE Unicode(CourseKeyFromString(req.course_run))

\* IsForbidden with the negation of is_staff lost
IsForbiddenStaff(req, username) ==
    (req.requester.is_staff /\ req.requester.username # username) /\ ~req.api_key

\* the condition of the 404 answer (lines 251-253)
IsForbidden(req, username) ==
    (~req.requester.is_staff /\ req.requester.username # username) /\ ~req.api_key

\* the GET requests of the model; api_key is has_api_key_permissions(request)
ListRequests ==
    [requester : [username : Accounts, is_staff : BOOLEAN],
     api_key : BOOLEAN,
     user : {None} \cup Accounts,
     course_run : {None, "bad", "c1"}]

\* the tables of the listing model: u1 with any rows, u2 with rows created at 1
ListTables ==
    {Table(f) \cup Table(g) :
        f \in [{"u1"} \X Courses ->
                 {Nothing} \cup [mode : {"honor"}, is_active : BOOLEAN,
                                 created : 1..MaxCreated]],
        g \in [{"u2"} \X Courses ->
                 {Nothing} \cup [mode : {"honor"}, is_active : BOOLEAN, created : {1}]]}

\* no listing request was made
ListOff ==
    /\ list_request = Nothing
    /\ queries = <<>>
    /\ list_response = Nothing

InitList ==
    /\ enrollments \in ListTables
    /\ BulkOff
    /\ ListOff
    /\ ExamsOff

\* lines 244-256: the requested username and course, the 404 answer
ListForbidden ==
    /\ list_request = Nothing
    /\ \E req \in ListRequests :
        /\ IsForbidden(req, RequestedUsername(req))
        /\ list_request' = req
        /\ list_response' = Response(HTTP_404_NOT_FOUND, Nothing)
        /\ UNCHANGED queries
    /\ UNCHANGED <<enrollments, before, bulkVars, examVars>>

\* lines 244-261: the enrollments of the requested user are returned
ListEnrollments ==
    /\ list_request = Nothing
    /\ \E req \in ListRequests :
        /\ ~IsForbidden(req, RequestedUsername(req))
        /\ list_request' = req
        /\ queries' = <<<<RequestedUsername(req), RequestedCourse(req)>>>>
        /\ \E data \in get_course_enrollments(enrollments, RequestedUsername(req),
                                              RequestedCourse(req)) :
             list_response' = Response(HTTP_200_OK, data)
    /\ UNCHANGED <<enrollments, before, bulkVars, examVars>>

\* lines 262-270: get_course_enrollments raised CourseEnrollmentError
ListError ==
    /\ list_request = Nothing
    /\ \E req \in ListRequests :
        /\ ~IsForbidden(req, RequestedUsername(req))
        /\ list_request' = req
        /\ queries' = <<<<RequestedUsername(req), RequestedCourse(req)>>>>
        /\ list_response' =
             Response(HTTP_400_BAD_REQUEST,
                      [message |-> <<"An error occurred while retrieving enrollments for user '",
                                     RequestedUsername(req), "'">>])
    /\ UNCHANGED <<enrollments, before, bulkVars, examVars>>

NextList ==
    \/ ListForbidden
    \/ ListEnrollments
    \/ ListError

SpecList == InitList /\ [][NextList]_vars

(***************************************************************************)
(* data.get_user_proctored_exams.                                          *)
(***************************************************************************)
\* a timestamp text '%Y-%m-%dT%H:%M:%S' of day d, with or without the final Z
Stamp(d, h, m, sec, z) == [day |-> d, hour |-> h, minute |-> m, second |-> sec, z |-> z]

\* enrolment.course of the courses of the model; end may be None (Nothing)
\* and time_limit_mins may be None (<<>>, a number n being <<n>>)
Course(c) ==
    IF c = "c1"
    THEN [id |-> c, display_name |-> "Course 1", course_image_url |-> "/c1.jpg",
          start |-> Stamp(1, 0, 0, 0, TRUE), end |-> Nothing, time_limit_mins |-> <<90>>]
    ELSE IF c = "c2"
    THEN [id |-> c, display_name |-> "Course 2", course_image_url |-> "/c2.jpg",
          start |-> Stamp(1, 23, 30, 0, TRUE), end |-> Nothing, time_limit_mins |-> <<>>]
    ELSE [id |-> c, display_name |-> "Course 3", course_image_url |-> "/c3.jpg",
          start |-> Stamp(2, 8, 0, 0, TRUE), end |-> Stamp(9, 8, 0, 0, TRUE),
          time_limit_mins |-> <<45>>]

\* PlusMinutes with the bug of timedelta(hours=limit)
PlusHours(text, limit) ==
    LET total == (text.day * 24 + text.hour) * 60 + text.minute + limit * 60
    IN Stamp(total \div (24 * 60), (total \div 60) % 24, total % 60, text.second, FALSE)

\* datetime.strptime(text, '%Y-%m-%dT%H:%M:%SZ') + timedelta(minutes=limit),
\* then isoformat(): the minutes are carried into the hours and the days
PlusMinutes(text, limit) ==
    LET total == (text.day * 24 + text.hour) * 60 + text.minute + limit
    IN Stamp(total \div (24 * 60), (total \div 60) % 24, total % 60, text.second, FALSE)

\* course.time_limit_mins or 0
OrZero(v) == IF v = <<>> THEN 0 ELSE v[1]

\* lines 32-36: the end of the entry of a course
EndOf(course) ==
    IF course.end # Nothing THEN course.end
    ELSE LET limit == OrZero(course.time_limit_mins)
             end == PlusMinutes(course.start, limit)
         IN [end EXCEPT !.z = TRUE]

\* lines 48-51: the proctored exams of a list of exams, order kept
RECURSIVE ProctoredExams(_)
ProctoredExams(exams) ==
    IF Len(exams) = 0 THEN <<>>
    ELSE IF exams[1].is_proctored = TRUE
         THEN <<exams[1]>> \o ProctoredExams(Tail(exams))
         ELSE ProctoredExams(Tail(exams))

\* lines 37-51: the entry of a course
Entry(course, exams) ==
    [id |-> course.id,
     name |-> course.display_name,
     uri |-> <<"http://testserver", "/api/course_structure/v0/courses/", course.id>>,
     image_url |-> course.course_image_url,
     start |-> course.start,
     end |-> EndOf(course),
     exams |-> ProctoredExams(exams)]

\* DropEmpty with the filter of lines 52-53 left out
DropEmptyOmitted(result) == result

\* lines 52-53: only the entries with at least one exam are kept
DropEmpty(result) ==
    [key \in {k \in DOMAIN result : Len(result[k].exams) > 0} |-> result[key]]

\* lines 28-53: the loop over the enrolments, from the i-th one on
RECURSIVE ExamsLoop(_, _, _, _)
ExamsLoop(enrolments, i, registry, result) ==
    IF i > Len(enrolments) THEN result
    ELSE LET course == Course(enrolments[i].course_id)
             id == course.id
         IN IF id \notin DOMAIN result
            THEN ExamsLoop(enrolments, i + 1, registry,
                           DropEmpty([key \in DOMAIN result \cup {id} |->
                                        IF key = id THEN Entry(course, registry[id])
                                        ELSE result[key]]))
            ELSE ExamsLoop(enrolments, i + 1, registry, result)

\* lines 25-26: the rows of the enrolments query
ExamEnrolments(table, username) ==
    {r \in table : r.is_active = TRUE /\ r.user = username}

\* get_user_proctored_exams(username, request) for the query delivering enrolments
get_user_proctored_exams(enrolments, registry) ==
    ExamsLoop(enrolments, 1, registry, <<>>)

\* Response(data=result): result is a plain dict, so the keys are listed in the
\* order of the dictionary, which is any order
DictOrder(result) == AnyOrder(DOMAIN result)

\* the exam lists of a course in the registry
ExamLists ==
    SeqsUpTo([exam_name : {"exam"}, is_proctored : BOOLEAN], MaxExams)

\* the tables of the exams model: u1 with any rows, u2 enrolled in c1
ExamTables ==
    {Table(f) \cup {Row("u2", "c1", "honor", TRUE, 1)} :
        f \in [{"u1"} \X Courses ->
                 {Nothing} \cup [mode : {"honor"}, is_active : {FALSE}, created : {1}]
                 \cup [mode : {"honor"}, is_active : {TRUE}, created : 1..MaxCreated]]}

InitExams ==
    /\ enrollments \in ExamTables
    /\ BulkOff
    /\ ListOff
    /\ exam_registry \in [Courses -> ExamLists]
    /\ exam_username = None
    /\ exam_order = <<>>
    /\ exam_result = Nothing
    /\ exam_emitted = <<>>
    /\ end_course = Nothing
    /\ end_entry = Nothing

\* ProctoredExamsListView.get: the courses and proctored exams of username
ExamsGet ==
    /\ exam_result = Nothing
    /\ \E username \in Accounts :
        /\ exam_username' = username
        /\ \E enrolments \in AnyOrder(ExamEnrolments(enrollments, username)) :
            /\ exam_order' = enrolments
            /\ exam_result' = get_user_proctored_exams(enrolments, exam_registry)
            /\ exam_emitted' \in DictOrder(exam_result')
    /\ UNCHANGED <<enrollments, before, bulkVars, listVars, exam_registry, end_course,
                   end_entry>>

NextExams == ExamsGet

SpecExams == InitExams /\ [][NextExams]_vars

\* the courses whose entry is built: any start of the model's days, no end or
\* an explicit one, no time limit or one of a few
EndCourses ==
    [id : {"c1"}, display_name : {"Course 1"}, course_image_url : {"/c1.jpg"},
     start : {Stamp(d, h, m, sec, TRUE) :
                d \in 1..MaxDay, h \in 0..23, m \in {0, 30, 59}, sec \in {0, 30}},
     end : {Nothing, Stamp(9, 8, 0, 0, TRUE)},
     time_limit_mins : {<<>>, <<0>>, <<1>>, <<45>>, <<90>>, <<1440>>}]

InitEnd ==
    /\ enrollments = {}
    /\ BulkOff
    /\ ListOff
    /\ exam_registry = [c \in Courses |-> <<>>]
    /\ exam_username = None
    /\ exam_order = <<>>
    /\ exam_result = Nothing
    /\ exam_emitted = <<>>
    /\ end_course \in EndCourses
    /\ end_entry = Nothing

\* lines 29-47: the entry of the course of an enrolment
BuildEntry ==
    /\ end_entry = Nothing
    /\ end_entry' = Entry(end_course, exam_registry[end_course.id])
    /\ UNCHANGED <<enrollments, before, bulkVars, listVars, exam_registry, exam_username,
                   exam_order, exam_result, exam_emitted, end_course>>

NextEnd == BuildEntry

SpecEnd == InitEnd /\ [][NextEnd]_vars

Init == InitBulk /\ ListOff /\ ExamsOff

Next ==
    \/ Post
    \/ ResolveUsers
    \/ EmbargoCheck
    \/ CheckActivation
    \/ Classify
    \/ UpdateEnrollment
    \/ Finish

Spec == Init /\ [][Next]_vars

(***************************************************************************)
(* Vocabulary of the bulk enrollment claims.                               *)
(***************************************************************************)
\* post has returned
Done == pc = "done"

\* post got past the input validation of the users list and the course id
Parsed == pc # "idle" /\ course_id # Nothing

\* username has an active enrollment in the course whose mode is not target
Eligible(table, username, course, target) ==
    LET enrollment == get_enrollment(table, username, course)
    IN IF enrollment = Nothing THEN FALSE
       ELSE enrollment.is_active = TRUE /\ enrollment.mode # target

\* username's enrollment carries the requested mode and activation
Carries(table, username, course, target, active) ==
    LET enrollment == get_enrollment(table, username, course)
    IN IF enrollment = Nothing THEN FALSE
       ELSE /\ enrollment.mode = target
            /\ active # None => enrollment.is_active = (active = "True")

\* no row was written and neither mutation service was called
Untouched ==
    /\ update_calls = <<>>
    /\ opt_in_calls = <<>>
    /\ tx = before
    /\ enrollments = before

\* the response is one of the input validation errors
IsInputValidationError ==
    \/ response = MissingUsersResponse
    \/ response = MissingCourseResponse
    \/ course_id = Nothing /\ response = NoCourseResponse(request.course_id)
    \/ bad_users # <<>> /\ response = UnknownUsersResponse(bad_users)
    \/ response = InvalidActivationResponse(request.is_active)

\* the response is the restriction response of one of the listed users
IsEmbargoResponse ==
    /\ course_id # Nothing
    /\ \E i \in DOMAIN list_users :
         /\ list_users[i].username \in restricted
         /\ response = get_embargo_response(course_id, list_users[i])

\* the response is the combined already-paid / not-enrolled error
IsStateConflictError ==
    /\ course_id # Nothing
    /\ Len(already_paid) + Len(not_enrolled) > 0
    /\ response = ConflictResponse(course_id, already_paid, not_enrolled)

(***************************************************************************)
(* C1.  The enrollment update is called only if every requested user is    *)
(* eligible (active enrollment whose mode is not the requested mode): with *)
(* one user already in the requested mode or not actively enrolled, the    *)
(* request ends in an error and no enrollment row is mutated.              *)
(* The code compares with CourseMode.VERIFIED, not with the requested mode.*)
(***************************************************************************)
C1_UpdateOnlyIfAllEligible ==
    (/\ Parsed
     /\ \E i \in DOMAIN request.users :
          ~Eligible(before, request.users[i], Unicode(course_id), mode))
    => /\ update_calls = <<>>
       /\ tx = before
       /\ enrollments = before
       /\ Done => response.status # HTTP_200_OK

(***************************************************************************)
(* C2.  All-or-nothing: once post has returned, either every requested     *)
(* user's enrollment carries the requested mode and activation, or no row  *)
(* was changed.  The view returns a Response from its except clauses, so   *)
(* commit_on_success commits the updates made before the failing call.     *)
(***************************************************************************)
C2_AllOrNothing ==
    Done =>
        \/ enrollments = before
        \/ /\ course_id # Nothing
           /\ \A i \in DOMAIN request.users :
                Carries(enrollments, request.users[i], Unicode(course_id), mode,
                        request.is_active)

(***************************************************************************)
(* C3.  A request with a non-empty list of existing, non-restricted,       *)
(* eligible users, a valid course id and a valid or absent is_active, whose*)
(* host calls raise nothing, returns 200 "Success for course '<id>'." and  *)
(* leaves every listed user in the requested mode (verified by default).   *)
(* Fails for a requested mode other than verified: see C1.                 *)
(***************************************************************************)
C3_EligibleUsersSucceed ==
    (/\ Done
     /\ course_id # Nothing
     /\ request.is_active = None \/ IsBool(request.is_active)
     /\ raised = None
     /\ \A i \in DOMAIN request.users :
          /\ request.users[i] \in Accounts
          /\ request.users[i] \notin restricted
          /\ Eligible(before, request.users[i], Unicode(course_id), mode))
    => /\ response = Response(HTTP_200_OK,
                              [message |-> <<"Success for course '", request.course_id, "'.">>])
       /\ \A i \in DOMAIN request.users :
            LET enrollment == get_enrollment(enrollments, request.users[i], request.course_id)
            IN enrollment.mode = (IF request.mode = None THEN "verified" ELSE request.mode)

(***************************************************************************)
(* C4.  Fail-closed: whenever post returns an input validation error, an   *)
(* embargo restriction or the already-paid / not-enrolled error, neither   *)
(* update_enrollment nor update_email_opt_in was called and the table is   *)
(* unchanged.                                                              *)
(***************************************************************************)
C4_FailClosed ==
    (Done /\ (IsInputValidationError \/ IsEmbargoResponse \/ IsStateConflictError))
    => Untouched

\* a conflict is reported for a two-user request with one eligible user
C4_Witness ==
    /\ Done
    /\ IsStateConflictError
    /\ Len(request.users) = 2
    /\ \E i \in DOMAIN request.users :
         Eligible(before, request.users[i], Unicode(course_id), VERIFIED)

(***************************************************************************)
(* C5.  Every failing outcome other than a propagated embargo response --  *)
(* input validation, unknown users, state conflict and every commit-phase  *)
(* failure -- is HTTP 400 with a "message" field, and HTTP 200 is returned *)
(* only when the update was applied for every user.                        *)
(* CourseEnrollmentExistsError is answered with Response(data=             *)
(* error.enrollment): status 200 and no message.                           *)
(***************************************************************************)
C5_ErrorsAre400WithMessage ==
    Done =>
        /\ (IsInputValidationError \/ IsStateConflictError \/ raised # None)
           => /\ response.status = HTTP_400_BAD_REQUEST
              /\ "message" \in DOMAIN response.data
        /\ response.status = HTTP_200_OK
           => /\ update_calls = request.users
              /\ \A i \in DOMAIN request.users :
                   Carries(enrollments, request.users[i], Unicode(course_id), mode,
                           request.is_active)

(***************************************************************************)
(* C6.  The embargo check is consulted for the resolved users in input     *)
(* order; as soon as one user is restricted post returns exactly that      *)
(* user's restriction response, no later user is checked or classified,    *)
(* and no enrollment of any user is updated.                               *)
(***************************************************************************)
C6_EmbargoShortCircuit ==
    LET n == Len(embargo_checked) IN
    /\ IsPrefix(embargo_checked, list_users)
    /\ \A i \in 1..n : embargo_checked[i].username = request.users[i]
    /\ \A i \in 1..(n - 1) : embargo_checked[i].username \notin restricted
    /\ (n > 0 /\ embargo_checked[n].username \in restricted)
       => /\ Done
          /\ response = get_embargo_response(course_id, embargo_checked[n])
          /\ classified = <<>>
          /\ Untouched
    /\ (/\ Parsed
        /\ pc \notin {"resolve", "embargo"}
        /\ bad_users = <<>>
        /\ \E i \in DOMAIN request.users : request.users[i] \in restricted)
       => (n > 0 /\ embargo_checked[n].username \in restricted)

\* the second of three users is restricted: the first was checked, the third not
C6_Witness ==
    /\ Done
    /\ Len(list_users) = 3
    /\ Len(embargo_checked) = 2
    /\ embargo_checked[2].username \in restricted
    /\ list_users[3].username \in restricted
    /\ response = get_embargo_response(course_id, embargo_checked[2])

(***************************************************************************)
(* C7.  When a request that passed the users-list and course-id validation *)
(* lists usernames without an account, post returns one error whose        *)
(* message names all of them in input order, before any embargo check,     *)
(* classification or mutation.                                             *)
(***************************************************************************)
C7_UnknownUsersAllNamed ==
    (/\ Parsed
     /\ pc # "resolve"
     /\ \E i \in DOMAIN request.users : request.users[i] \notin Accounts)
    => /\ Done
       /\ response =
            Response(HTTP_400_BAD_REQUEST,
                     [message |-> <<"Users: ">>
                                  \o Join(SelectIn(request.users, UserNames \ Accounts))
                                  \o <<" does not exist.">>])
       /\ embargo_checked = <<>>
       /\ classified = <<>>
       /\ Untouched

\* two different unknown usernames around a restricted account
C7_Witness ==
    /\ Done
    /\ Len(request.users) = 3
    /\ request.users[1] \notin Accounts
    /\ request.users[2] \in restricted
    /\ request.users[3] \notin Accounts
    /\ request.users[1] # request.users[3]
    /\ response = UnknownUsersResponse(<<request.users[1], request.users[3]>>)

(***************************************************************************)
(* C8.  A requester who is not staff, holds no API key and asks for the    *)
(* enrollments of another username gets HTTP 404 without data, and the     *)
(* enrollment query is not executed; a requester without staff and API key *)
(* only ever receives enrollments of their own.                            *)
(***************************************************************************)
C8_CrossUserLookupIs404 ==
    list_request # Nothing =>
        LET requester == list_request.requester
            unprivileged == ~requester.is_staff /\ ~list_request.api_key
        IN /\ (/\ unprivileged
               /\ list_request.user # None
               /\ list_request.user # requester.username)
              => /\ list_response.status = HTTP_404_NOT_FOUND
                 /\ list_response.data = Nothing
                 /\ queries = <<>>
           /\ (unprivileged /\ list_response.status = HTTP_200_OK)
              => \A i \in DOMAIN list_response.data :
                    list_response.data[i].user = requester.username

\* the refused lookup is for a user who has an active enrollment
C8_Witness ==
    /\ list_request # Nothing
    /\ ~list_request.requester.is_staff
    /\ ~list_request.api_key
    /\ list_request.user # None
    /\ list_request.user # list_request.requester.username
    /\ list_response.status = HTTP_404_NOT_FOUND
    /\ \E r \in enrollments : r.user = list_request.user /\ r.is_active

(***************************************************************************)
(* C9.  The dictionary get_user_proctored_exams returns has an entry for a *)
(* course only if the course has a proctored exam: no entry has an empty   *)
(* exams list, every exam of an entry is proctored, and a course without   *)
(* proctored exams is absent wherever its enrolment comes in the loop.     *)
(***************************************************************************)
C9_NoEntryWithoutProctoredExam ==
    exam_result # Nothing =>
        /\ \A c \in DOMAIN exam_result :
             /\ Len(exam_result[c].exams) > 0
             /\ \A i \in DOMAIN exam_result[c].exams :
                  exam_result[c].exams[i].is_proctored = TRUE
             /\ \E i \in DOMAIN exam_registry[c] : exam_registry[c][i].is_proctored
        /\ \A i \in DOMAIN exam_order :
             (\A j \in DOMAIN exam_registry[exam_order[i].course_id] :
                 ~exam_registry[exam_order[i].course_id][j].is_proctored)
             => exam_order[i].course_id \notin DOMAIN exam_result

\* three enrolments; the second course has only exams that are not proctored
C9_Witness ==
    /\ exam_result # Nothing
    /\ Len(exam_order) = 3
    /\ Len(exam_registry[exam_order[2].course_id]) = 2
    /\ \A j \in 1..2 : ~exam_registry[exam_order[2].course_id][j].is_proctored
    /\ DOMAIN exam_result = {exam_order[1].course_id, exam_order[3].course_id}

(***************************************************************************)
(* C10.  For a user with N active enrollments (in the given course when a  *)
(* course filter is passed) get_course_enrollments returns exactly N       *)
(* records, one per such enrollment, in ascending order of creation;       *)
(* inactive enrollments and other users' enrollments never appear.         *)
(***************************************************************************)
C10_ActiveEnrollmentsInCreationOrder ==
    (list_request # Nothing /\ list_response.status = HTTP_200_OK) =>
        LET user_id == queries[1][1]
            course == queries[1][2]
            data == list_response.data
            expected == {r \in enrollments :
                            /\ r.user = user_id
                            /\ r.is_active
                            /\ course # None => r.course_id = course}
        IN /\ Len(data) = Cardinality(expected)
           /\ {<<data[i].user, data[i].course_details.course_id>> : i \in DOMAIN data}
                = {<<r.user, r.course_id>> : r \in expected}
           /\ \A i \in DOMAIN data : data[i].is_active = TRUE /\ data[i].user = user_id
           /\ \A i, j \in DOMAIN data : i < j => data[i].created <= data[j].created

\* two active enrollments listed against the course order, beside an inactive
\* enrollment of the user and an active one of another user
C10_Witness ==
    /\ list_request # Nothing
    /\ list_response.status = HTTP_200_OK
    /\ queries[1] = <<"u1", None>>
    /\ Len(list_response.data) = 2
    /\ list_response.data[1].course_details.course_id = "c3"
    /\ list_response.data[2].course_details.course_id = "c1"
    /\ list_response.data[1].created < list_response.data[2].created
    /\ \E r \in enrollments : r.user = "u1" /\ ~r.is_active
    /\ \E r \in enrollments : r.user = "u2" /\ r.is_active

(***************************************************************************)
(* C11.  get_user_proctored_exams fetches the user's active enrollments    *)
(* in the order of their creation and lists its course entries in that     *)
(* same order, each course id at most once.                                *)
(* The enrolments query has no order_by and the result is a plain dict.    *)
(***************************************************************************)
C11_EntriesInCreationOrder ==
    exam_result # Nothing =>
        LET CreatedOf(c) ==
                (CHOOSE r \in ExamEnrolments(enrollments, exam_username) :
                    r.course_id = c).created
        IN /\ \A i, j \in DOMAIN exam_order :
                i < j => exam_order[i].created <= exam_order[j].created
           /\ \A i, j \in DOMAIN exam_emitted :
                i < j => /\ CreatedOf(exam_emitted[i]) <= CreatedOf(exam_emitted[j])
                         /\ exam_emitted[i] # exam_emitted[j]

\* the minutes a timestamp text lies after the start of day 0
MinutesOf(text) == (text.day * 24 + text.hour) * 60 + text.minute

(***************************************************************************)
(* C12.  For a course without an end date the end of its entry is the      *)
(* start plus time_limit_mins minutes (0 when the limit is absent), with   *)
(* the final Z: 2024-01-01T00:00:00Z and 90 give 2024-01-01T01:30:00Z.     *)
(* For a course with an end date the entry carries that date unchanged.    *)
(***************************************************************************)
C12_EndIsStartPlusLimit ==
    end_entry # Nothing =>
        IF end_course.end # Nothing
        THEN end_entry.end = end_course.end
        ELSE LET limit == IF end_course.time_limit_mins = <<>> THEN 0
                          ELSE end_course.time_limit_mins[1]
             IN /\ MinutesOf(end_entry.end) = MinutesOf(end_course.start) + limit
                /\ end_entry.end.hour \in 0..23
                /\ end_entry.end.minute \in 0..59
                /\ end_entry.end.second = end_course.start.second
                /\ end_entry.end.z = TRUE
                /\ (end_course.start = Stamp(1, 0, 0, 0, TRUE) /\ limit = 90)
                   => end_entry.end = Stamp(1, 1, 30, 0, TRUE)

\* the first day at 00:00:00 with a limit of 90 minutes ends at 01:30:00
C12_Witness ==
    /\ end_entry # Nothing
    /\ end_course.end = Nothing
    /\ end_course.start = Stamp(1, 0, 0, 0, TRUE)
    /\ end_course.time_limit_mins = <<90>>
    /\ end_entry.end = Stamp(1, 1, 30, 0, TRUE)

(***************************************************************************)
(* C13.  In the commit phase the users are updated one at a time in input  *)
(* order and the first error of the mutation service halts the loop: when  *)
(* the update of the k-th user fails, exactly the users before k were      *)
(* updated and stay updated (nothing is rolled back), the k-th and later   *)
(* users (unless also listed before k) are untouched, no email opt-in is   *)
(* recorded, and the generic enrollment error names the k-th username and  *)
(* the course.                                                             *)
(***************************************************************************)
C13_FirstUpdateErrorHalts ==
    LET k == Len(update_calls)
        users == request.users
    IN /\ k > 0 => update_calls = SubSeq(users, 1, k)
       /\ (Done /\ k > 0 /\ raised # None)
          => /\ \A i \in 1..(k - 1) :
                  Carries(enrollments, users[i], Unicode(course_id), mode,
                          request.is_active)
             /\ \A i \in k..Len(users) :
                  users[i] \notin {users[j] : j \in 1..(k - 1)}
                  => get_enrollment(enrollments, users[i], Unicode(course_id))
                       = get_enrollment(before, users[i], Unicode(course_id))
             /\ opt_in_calls = <<>>
             /\ raised = "CourseEnrollmentError"
                => response =
                     Response(HTTP_400_BAD_REQUEST,
                              [message |-> <<"An error occurred while creating the new course enrollment for user '",
                                             users[k], "' in course '", request.course_id, "'">>])

\* the update of the second of three users fails after the first was changed
C13_Witness ==
    /\ Done
    /\ raised = "CourseEnrollmentError"
    /\ Len(request.users) = 3
    /\ Len(update_calls) = 2
    /\ request.users[1] # request.users[2]
    /\ request.email_opt_in # None
    /\ get_enrollment(enrollments, request.users[1], Unicode(course_id))
         # get_enrollment(before, request.users[1], Unicode(course_id))
    /\ get_enrollment(enrollments, request.users[2], Unicode(course_id))
         = get_enrollment(before, request.users[2], Unicode(course_id))

(***************************************************************************)
(* C14, as claimed.  A request whose is_active is supplied and not a       *)
(* boolean is rejected with the invalid-activation error without the       *)
(* embargo check having been consulted for any user, even when a listed    *)
(* user is restricted.                                                     *)
(***************************************************************************)
C14_ActivationBeforeEmbargo ==
    (/\ Done
     /\ Parsed
     /\ bad_users = <<>>
     /\ request.is_active \notin {None, "True", "False"})
    => /\ response =
            Response(HTTP_400_BAD_REQUEST,
                     [message |-> <<"'", request.is_active,
                                    "' is an invalid enrollment activation status.">>])
       /\ embargo_checked = <<>>

(***************************************************************************)
(* C14, amended.  is_active is validated after the embargo loop and        *)
(* before any classification or mutation: a request whose is_active is     *)
(* supplied and not a boolean gets the restriction response when a listed  *)
(* user is restricted, and else the invalid-activation error once every    *)
(* user has passed the embargo check; no enrollment is read or updated.    *)
(***************************************************************************)
C14_ActivationAfterEmbargo ==
    (/\ Parsed
     /\ pc \notin {"resolve", "embargo", "activation"}
     /\ bad_users = <<>>
     /\ request.is_active \notin {None, "True", "False"})
    => /\ Done
       /\ classified = <<>>
       /\ Untouched
       /\ IF \E i \in DOMAIN request.users : request.users[i] \in restricted
          THEN IsEmbargoResponse
          ELSE /\ response =
                    Response(HTTP_400_BAD_REQUEST,
                             [message |-> <<"'", request.is_active,
                                            "' is an invalid enrollment activation status.">>])
               /\ embargo_checked = list_users

\* the invalid-activation error after both users passed the embargo check
C14_Witness ==
    /\ Done
    /\ request.is_active = "yes"
    /\ response = InvalidActivationResponse("yes")
    /\ Len(embargo_checked) = 2
    /\ embargo_checked[1] # embargo_checked[2]
    /\ restricted = {}

=============================================================================
